---- MODULE Spec2Model ----
(***************************************************************************)
(* Visual extraction pipeline of CubeWizard (src/image_processor.py).      *)
(*                                                                         *)
(* The model follows one ImageProcessor through successive invocations of  *)
(* its entry points.  Every call into the Recognition Engine               *)
(* (client.responses.parse) is a blocking external call: the model stops   *)
(* in front of it and a separate action delivers what the engine answers   *)
(* (a parsed result, no parsed result, or an exception).                   *)
(***************************************************************************)
EXTENDS Integers, Sequences, FiniteSets, TLC

VARIABLES
    cfg,              \* config.ini as loaded by ConfigManager
    disk,             \* the file system: path -> content of the file
    pc,               \* position of the running invocation
    entry,            \* the entry point that was called
    image_path,       \* argument image_path
    use_multi_pass,   \* argument use_multi_pass
    actual_multi_pass,\* local of extract_card_names
    cleanup_files,    \* local of extract_card_names
    cube_card_list,   \* local of extract_card_names (None or a list)
    first_pass_cards, \* local of _multi_pass_extraction
    all_cards,        \* local of _multi_pass_extraction
    expected_total,   \* local of _multi_pass_extraction
    processed_image_path, \* local of detect_image_orientation
    prompts,          \* the instructions sent to the engine, in order
    engine,           \* what the engine answered to each of them, in order
    passes,           \* the extraction passes (1, 2, 3) that produced them
    outcome,          \* "none", "returned" or "raised"
    exc,              \* the exception that left the entry point
    result,           \* the list returned by extract_card_names
    rotation,         \* the value returned by detect_image_orientation
    oriented_image_path, \* local of extract_card_names_with_orientation
    written,          \* the paths the invocation has saved a file to
    removed,          \* the paths the invocation has removed
    other,            \* a second invocation running at the same time
    rotated_img,      \* local of rotate_and_save_image
    batch             \* process_image_directory: its loop and its list

vars == <<cfg, disk, pc, entry, image_path, use_multi_pass, actual_multi_pass,
          cleanup_files, cube_card_list, first_pass_cards, all_cards,
          expected_total, processed_image_path, prompts, engine, passes,
          outcome, exc, result, rotation, oriented_image_path, written,
          removed, other, rotated_img, batch>>

----------------------------------------------------------------------------
(* Bounds of the model.                                                    *)

\* longest card_names list the engine returns in one call
MaxLen == 2

\* card names; two of them differ only in case
Names == {"Bolt", "bolt", "Opt"}

\* code point order of the names, as Python's sorted() sees them
NameRank(n) == CASE n = "Bolt" -> 1 [] n = "Opt" -> 2 [] n = "bolt" -> 3

\* values of expected_deck_size in config.ini that are explored
ExpectedSizes == {2, 40}

\* default of cubecobra/max_cards_in_prompt
MaxCardsInPrompt == 360

----------------------------------------------------------------------------
(* Sequences and sets.                                                     *)

Range(s) == {s[i] : i \in 1..Len(s)}

SeqsUpTo(S, n) == UNION {[1..k -> S] : k \in 0..n}

NoDuplicates(s) == \A i, j \in 1..Len(s) : i # j => s[i] # s[j]

\* [card for card in s if card not in found]
RECURSIVE NotIn(_, _)
NotIn(s, found) ==
    IF s = <<>> THEN <<>>
    ELSE IF Head(s) \in found THEN NotIn(Tail(s), found)
         ELSE <<Head(s)>> \o NotIn(Tail(s), found)

\* sorted(S) for a set of card names
RECURSIVE Sorted(_)
Sorted(S) ==
    IF S = {} THEN <<>>
    ELSE LET m == CHOOSE x \in S : \A y \in S : NameRank(x) <= NameRank(y)
         IN  <<m>> \o Sorted(S \ {m})

\* list(S): a list holding each element of the set once.  Python leaves
\* the order open; no property below reads it, and the model keeps the
\* sorted list as the representative of all orders.
ListOf(S) == Sorted(S)


----------------------------------------------------------------------------
(* Configuration (src/config_manager.py).                                  *)

\* the values of config.ini the pipeline reads
Configs ==
    [use_multi_pass_detection : BOOLEAN,
     enable_validation_pass   : BOOLEAN,
     expected_deck_size       : ExpectedSizes]

\* a variant of get_use_multi_pass_detection that leaves the choice to the
\* caller's argument
get_use_multi_pass_detection_ignored(c) == TRUE

get_use_multi_pass_detection(c) == c.use_multi_pass_detection

get_enable_validation_pass(c) == c.enable_validation_pass

get_expected_deck_size(c) == c.expected_deck_size

----------------------------------------------------------------------------
(* Paths and files.  A path is its stem, cut into the base name and the    *)
(* suffix markers appended to it, and its extension.                       *)

Path(base, ext) == [stem |-> <<base>>, ext |-> ext]

\* original_path.parent / f"{original_path.stem}{marker}{ext}"
WithMarker(p, marker, ext) == [stem |-> Append(p.stem, marker), ext |-> ext]

\* marker in Path(p).stem
HasMarker(p, marker) == \E i \in 2..Len(p.stem) : p.stem[i] = marker

\* Path.suffix.lower()
LowerExt(e) == IF e = ".JPG" THEN ".jpg" ELSE e

\* what an image file holds: whether PIL can open it, whether its mode is
\* RGBA or P, and whether it exceeds the maximum width or height
Content(openable, alpha, big) ==
    [openable |-> openable, alpha |-> alpha, big |-> big]

Exists(d, p) == p \in DOMAIN d

WriteFile(d, p, c) == (p :> c) @@ d

RemoveFile(d, p) == [q \in DOMAIN d \ {p} |-> d[q]]

\* PIL's Image.open(p) succeeds
CanOpen(d, p) == Exists(d, p) /\ d[p].openable

\* the exception of Image.open(p) when it fails: the file is not there, or
\* PIL identifies no image in it
OpenError(d, p) ==
    IF Exists(d, p) THEN "UnidentifiedImageError" ELSE "FileNotFoundError"

\* PIL's img.save(p) succeeds: it picks the writer from the extension, and
\* has none for a format it can only read
CanSave(p) == p.ext # ".psd"

\* the images callers hand to the pipeline, each alone on the disk
Images ==
    { <<Path("deck", ".jpg"),  Content(TRUE, FALSE, FALSE)>>,
      <<Path("deck", ".JPG"),  Content(TRUE, FALSE, TRUE)>>,
      <<Path("deck", ".heic"), Content(TRUE, FALSE, FALSE)>>,
      <<Path("deck", ".webp"), Content(TRUE, TRUE, TRUE)>>,
      <<Path("deck", ".heic"), Content(FALSE, FALSE, FALSE)>> }

----------------------------------------------------------------------------
(* Format Normalizer and Resizer.                                          *)

\* _convert_to_compatible_format: the path to use and the disk it leaves.
\* A failed conversion is caught and the original path is returned.
_convert_to_compatible_format(d, p) ==
    IF LowerExt(p.ext) \in {".jpg", ".jpeg", ".png"}
    THEN [path |-> p, disk |-> d, wrote |-> {}]
    ELSE IF ~CanOpen(d, p)
    THEN [path |-> p, disk |-> d, wrote |-> {}]
    ELSE LET converted_path ==
                 IF d[p].alpha THEN WithMarker(p, "_converted", ".png")
                               ELSE WithMarker(p, "_converted", ".jpg")
         IN  [path |-> converted_path,
              disk |-> WriteFile(d, converted_path, d[p]),
              wrote |-> {converted_path}]

\* a variant of resize_image_if_needed that saves the smaller image over
\* the file it was given
resize_image_if_needed_in_place(d, p) ==
    IF ~CanOpen(d, p)
    THEN [raised |-> TRUE, path |-> p, disk |-> d, wrote |-> {}]
    ELSE IF ~d[p].big
    THEN [raised |-> FALSE, path |-> p, disk |-> d, wrote |-> {}]
    ELSE [raised |-> FALSE, path |-> p,
          disk |-> WriteFile(d, p, Content(TRUE, d[p].alpha, FALSE)),
          wrote |-> {p}]

\* a variant of resize_image_if_needed that saves a copy whatever the size
resize_image_if_needed_always(d, p) ==
    IF ~CanOpen(d, p)
    THEN [raised |-> TRUE, path |-> p, disk |-> d, wrote |-> {}]
    ELSE LET resized_path == WithMarker(p, "_resized", p.ext)
         IN  [raised |-> FALSE, path |-> resized_path,
              disk |-> WriteFile(d, resized_path,
                                 Content(TRUE, d[p].alpha, FALSE)),
              wrote |-> {resized_path}]

\* resize_image_if_needed: Image.open is not guarded, so a file PIL cannot
\* open raises out of the function.
resize_image_if_needed(d, p) ==
    IF ~CanOpen(d, p)
    THEN [raised |-> TRUE, path |-> p, disk |-> d, wrote |-> {}]
    ELSE IF ~d[p].big
    THEN [raised |-> FALSE, path |-> p, disk |-> d, wrote |-> {}]
    ELSE LET resized_path == WithMarker(p, "_resized", p.ext)
         IN  [raised |-> FALSE, path |-> resized_path,
              disk |-> WriteFile(d, resized_path,
                                 Content(TRUE, d[p].alpha, FALSE)),
              wrote |-> {resized_path}]

\* encode_image raises when the file cannot be read
encode_image_raises(d, p) == ~Exists(d, p)

\* a variant of CleanupFiles that lists every file the preparation used,
\* the image it was given included
CleanupFilesWithSource(image, compatible, processed) ==
    <<image>>
    \o (IF compatible # image THEN <<compatible>> ELSE <<>>)
    \o (IF processed # compatible THEN <<processed>> ELSE <<>>)

\* the cleanup_files list built by extract_card_names
CleanupFiles(image, compatible, processed) ==
    (IF compatible # image THEN <<compatible>> ELSE <<>>)
    \o (IF processed # compatible THEN <<processed>> ELSE <<>>)

\* the finally block of extract_card_names
RECURSIVE RemoveAll(_, _)
RemoveAll(d, fs) ==
    IF fs = <<>> THEN d
    ELSE RemoveAll(IF Exists(d, Head(fs)) THEN RemoveFile(d, Head(fs)) ELSE d,
                   Tail(fs))

\* the files of fs that an os.remove of the cleanup finds and removes
Removed(d, fs) == {f \in Range(fs) : Exists(d, f)}

----------------------------------------------------------------------------
(* Reference list (CubeCobra).                                             *)

None == [is_none |-> TRUE, cards |-> <<>>]

Some(cards) == [is_none |-> FALSE, cards |-> cards]

\* Python truthiness of an Optional[List[str]]
Truthy(l) == ~l.is_none /\ Len(l.cards) > 0

\* the cubes on CubeCobra: the first 0, 1, 2 or 3 of the names
Cubes == {{n \in Names : NameRank(n) <= k} : k \in 0..Cardinality(Names)}

\* how the fetch of the reference list ends: no id was given; a request or
\* parse error (None is returned); a TypeError, which fetch_cubecobra_list
\* does not catch; or the sorted list, without duplicates, of a cube's names
FetchOutcomes ==
    {[kind |-> k, cards |-> <<>>] : k \in {"no_id", "error", "type_error"}}
    \cup {[kind |-> "ok", cards |-> Sorted(S)] : S \in Cubes}

fetch_cubecobra_list(f) == IF f.kind = "ok" THEN Some(f.cards) ELSE None

----------------------------------------------------------------------------
(* Recognition Engine.                                                     *)

\* rotation_needed is an int in the schema; 45 stands for a value outside
\* the four cardinal ones
RotationValues == {0, 90, 180, 270, 45}

\* answers to an extraction call
ExtractionAnswers ==
    {[kind |-> k, names |-> <<>>, rotation |-> 0] : k \in {"raise", "none"}}
    \cup {[kind |-> "ok", names |-> l, rotation |-> 0] :
             l \in SeqsUpTo(Names, MaxLen)}

\* answers to an orientation call
OrientationAnswers ==
    {[kind |-> k, names |-> <<>>, rotation |-> 0] : k \in {"raise", "none"}}
    \cup {[kind |-> "ok", names |-> <<>>, rotation |-> r] :
             r \in RotationValues}

\* an instruction sent to the engine: what it is for and what it embeds
Prompt(kind, count, found, listed, expected) ==
    [kind |-> kind, count |-> count, found |-> found, listed |-> listed,
     expected |-> expected]

\* cube_card_list[:max_cards_in_prompt]
FirstN(l, n) == SubSeq(l, 1, IF Len(l) < n THEN Len(l) ELSE n)

\* base_prompt + cube_context
BasePrompt(l) ==
    Prompt("base", 0, <<>>,
           IF Truthy(l) THEN FirstN(l.cards, MaxCardsInPrompt) ELSE <<>>, 0)

\* a variant of MissedFocusPrompt that embeds the deduplicated, sorted names
MissedFocusPromptOfSet(first, expected) ==
    Prompt("second", Len(first), Sorted(Range(first)), <<>>, expected)

\* missed_focus_prompt
MissedFocusPrompt(first, expected) ==
    Prompt("second", Len(first), first, <<>>, expected)

\* validation_prompt
ValidationPrompt(all, unfound) ==
    Prompt("validation", Cardinality(all), Sorted(all), unfound, 0)

OrientationPrompt == Prompt("orientation", 0, <<>>, <<>>, 0)

\* a variant of _single_pass_extraction without the try/except: an
\* exception of the engine's call leaves the function
_single_pass_extraction_uncaught(a) ==
    [raised |-> a.kind = "raise",
     cards  |-> IF a.kind = "ok" THEN a.names ELSE <<>>]

\* _single_pass_extraction: the list the engine parsed, or [] when no
\* structured result came back or the call raised; the try/except lets no
\* exception out
_single_pass_extraction(a) ==
    [raised |-> FALSE,
     cards  |-> IF a.kind = "ok" THEN a.names ELSE <<>>]

\* str.lower() on a card name
LowerName(n) == IF n = "Bolt" THEN "bolt" ELSE n

\* a variant of Update that folds the case of the names it adds
UpdateCaseFolded(all, cards) == all \cup {LowerName(n) : n \in Range(cards)}

\* all_cards.update(cards)
Update(all, cards) == all \cup Range(cards)

\* a variant of Pass2Gate that does not ask for a reference list
Pass2GateNoList(l, first) == Len(first) > 0

\* a variant of Pass2Gate that does not ask what pass 1 found
Pass2GateNoFirst(l, first) == Truthy(l)

\* the condition under which pass 2 runs
Pass2Gate(l, first) == Truthy(l) /\ Len(first) > 0

\* found_cards < expected_total * 0.9
BelowCoverage(found_cards, expected) == 10 * found_cards < 9 * expected

\* a variant of UnfoundCards that takes a name for found when it was found
\* in another spelling of its letters' case
UnfoundCardsCaseFolded(l, all) ==
    NotIn(l.cards, {n \in Names : LowerName(n) \in {LowerName(m) : m \in all}})

\* unfound_cards
UnfoundCards(l, all) == NotIn(l.cards, all)

\* a variant of Pass3Gate that does not read the validation-pass flag
Pass3GateNoFlag(c, l, all, expected) ==
    /\ Truthy(l)
    /\ BelowCoverage(Cardinality(all), expected)
    /\ UnfoundCards(l, all) # <<>>

\* the conditions under which pass 3 runs, given that pass 2 ran
Pass3Gate(c, l, all, expected) ==
    /\ Truthy(l)
    /\ get_enable_validation_pass(c)
    /\ BelowCoverage(Cardinality(all), expected)
    /\ UnfoundCards(l, all) # <<>>

----------------------------------------------------------------------------
(* State.                                                                  *)

NoPath == [stem |-> <<>>, ext |-> ""]

\* no second invocation is running
NoOther ==
    [path |-> NoPath, written |-> {}, removed |-> {}, cleanup_files |-> <<>>]

\* rotate_and_save_image has rotated no image
NoImage == [size |-> <<0, 0>>, turn |-> 0, angle |-> 0]

\* process_image_directory is not running
NoBatch == [status |-> "none", image_paths |-> <<>>, enriched_paths |-> <<>>]

\* a path that names no file
MissingPath == Path("gone", ".jpg")

\* the paths callers pass in: the images they put on the disk (never the
\* pipeline's derived files) and a path that does not exist
CallPaths(d) == {p \in DOMAIN d : Len(p.stem) = 1} \cup {MissingPath}

Init ==
    /\ cfg \in Configs
    /\ \E img \in Images : disk = (img[1] :> img[2])
    /\ pc = "idle"
    /\ entry = "none"
    /\ image_path = NoPath
    /\ use_multi_pass = TRUE
    /\ actual_multi_pass = FALSE
    /\ cleanup_files = <<>>
    /\ cube_card_list = None
    /\ first_pass_cards = <<>>
    /\ all_cards = {}
    /\ expected_total = 0
    /\ processed_image_path = NoPath
    /\ prompts = <<>>
    /\ engine = <<>>
    /\ passes = <<>>
    /\ outcome = "none"
    /\ exc = "none"
    /\ result = <<>>
    /\ rotation = 0
    /\ oriented_image_path = NoPath
    /\ written = {}
    /\ removed = {}
    /\ other = NoOther
    /\ rotated_img = NoImage
    /\ batch = NoBatch

\* no invocation is running
AtRest == pc = "idle"

\* the locals and the record of a fresh invocation
Fresh(e, p, ump) ==
    /\ entry' = e
    /\ image_path' = p
    /\ use_multi_pass' = ump
    /\ first_pass_cards' = <<>>
    /\ all_cards' = {}
    /\ expected_total' = 0
    /\ engine' = <<>>
    /\ result' = <<>>
    /\ rotation' = 0

\* the invocation ends with an exception
Raise(e) ==
    /\ pc' = "done"
    /\ outcome' = "raised"
    /\ exc' = e

----------------------------------------------------------------------------
(* extract_card_names.                                                     *)

\* extract_card_names(p, ...) on the disk d up to its first call of the
\* engine: conversion, resize, encoding, cleanup bookkeeping, fetch of the
\* reference list and the choice between single-pass and multi-pass
\* extraction.  ps are the instructions sent so far, w the paths saved so
\* far.
StartExtraction(d, p, f, ump, ps, w) ==
    LET conv == _convert_to_compatible_format(d, p)
        rs   == resize_image_if_needed(conv.disk, conv.path)
    IN  /\ disk' = rs.disk
        /\ written' = w \cup conv.wrote \cup rs.wrote
        /\ IF rs.raised
           THEN /\ Raise(OpenError(conv.disk, conv.path))
                /\ UNCHANGED <<cleanup_files, cube_card_list>>
                /\ actual_multi_pass' = FALSE
                /\ prompts' = ps
                /\ passes' = <<>>
           ELSE IF encode_image_raises(rs.disk, rs.path)
           THEN /\ Raise("encode")
                /\ UNCHANGED <<cleanup_files, cube_card_list>>
                /\ actual_multi_pass' = FALSE
                /\ prompts' = ps
                /\ passes' = <<>>
           ELSE IF f.kind = "type_error"
           THEN /\ Raise("TypeError")
                /\ cleanup_files' = CleanupFiles(p, conv.path, rs.path)
                /\ cube_card_list' = None
                /\ actual_multi_pass' = FALSE
                /\ prompts' = ps
                /\ passes' = <<>>
           ELSE /\ cleanup_files' = CleanupFiles(p, conv.path, rs.path)
                /\ cube_card_list' = fetch_cubecobra_list(f)
                /\ actual_multi_pass' =
                       (ump /\ get_use_multi_pass_detection(cfg))
                /\ prompts' = Append(ps, BasePrompt(fetch_cubecobra_list(f)))
                /\ passes' = <<1>>
                /\ pc' = "pass1"
                /\ outcome' = "none"
                /\ exc' = "none"

\* a caller invokes extract_card_names
CallExtractCardNames(p, f, ump) ==
    /\ AtRest
    /\ Fresh("extract_card_names", p, ump)
    /\ processed_image_path' = NoPath
    /\ StartExtraction(disk, p, f, ump, <<>>, {})
    /\ UNCHANGED <<cfg, oriented_image_path, removed, other,
                   rotated_img, batch>>

\* extract_card_names returns res; its finally block removes cleanup_files
Return(res) ==
    /\ result' = res
    /\ disk' = RemoveAll(disk, cleanup_files)
    /\ removed' = removed \cup Removed(disk, cleanup_files)
    /\ pc' = "done"
    /\ outcome' = "returned"
    /\ exc' = "none"

\* an exception leaves the try block of extract_card_names; its finally
\* block removes cleanup_files
Propagate(e) ==
    /\ Raise(e)
    /\ disk' = RemoveAll(disk, cleanup_files)
    /\ removed' = removed \cup Removed(disk, cleanup_files)
    /\ UNCHANGED result

\* the engine answers pass 1; the code runs on to its next call of the
\* engine or to the return
Pass1Returns(a) ==
    /\ pc = "pass1"
    /\ engine' = Append(engine, a)
    /\ LET sp    == _single_pass_extraction(a)
           first == sp.cards
           all   == Update({}, first)
       IN  IF sp.raised
           THEN /\ Propagate("Exception")
                /\ UNCHANGED <<first_pass_cards, all_cards, expected_total,
                               prompts, passes>>
           ELSE IF ~actual_multi_pass
           THEN /\ Return(first)
                /\ UNCHANGED <<first_pass_cards, all_cards, expected_total,
                               prompts, passes>>
           ELSE /\ first_pass_cards' = first
                /\ all_cards' = all
                /\ IF Pass2Gate(cube_card_list, first)
                   THEN /\ expected_total' = get_expected_deck_size(cfg)
                        /\ prompts' = Append(prompts,
                               MissedFocusPrompt(first,
                                   get_expected_deck_size(cfg)))
                        /\ passes' = Append(passes, 2)
                        /\ pc' = "pass2"
                        /\ UNCHANGED <<disk, removed, result, outcome, exc>>
                   ELSE /\ Return(ListOf(all))
                        /\ UNCHANGED <<expected_total, prompts, passes>>
    /\ UNCHANGED <<cfg, entry, image_path, oriented_image_path, written,
                   other, use_multi_pass, actual_multi_pass,
                   cleanup_files, cube_card_list, processed_image_path,
                   rotation,
                   rotated_img, batch>>

\* a variant of Pass2Returns that returns at once when pass 2 contributed
\* nothing
Pass2ReturnsStopsOnEmpty(a) ==
    /\ pc = "pass2"
    /\ engine' = Append(engine, a)
    /\ LET sp  == _single_pass_extraction(a)
           all == Update(all_cards, sp.cards)
       IN  /\ all_cards' = all
           /\ IF sp.cards # <<>>
                 /\ Pass3Gate(cfg, cube_card_list, all, expected_total)
              THEN /\ prompts' = Append(prompts,
                          ValidationPrompt(all,
                              UnfoundCards(cube_card_list, all)))
                   /\ passes' = Append(passes, 3)
                   /\ pc' = "pass3"
                   /\ UNCHANGED <<disk, removed, result, outcome, exc>>
              ELSE /\ Return(ListOf(all))
                   /\ UNCHANGED <<prompts, passes>>
    /\ UNCHANGED <<cfg, entry, image_path, oriented_image_path, written,
                   other, use_multi_pass, actual_multi_pass,
                   cleanup_files, cube_card_list, first_pass_cards,
                   expected_total, processed_image_path, rotation,
                   rotated_img, batch>>

\* the engine answers pass 2
Pass2Returns(a) ==
    /\ pc = "pass2"
    /\ engine' = Append(engine, a)
    /\ LET sp  == _single_pass_extraction(a)
           all == Update(all_cards, sp.cards)
       IN  IF sp.raised
           THEN /\ Propagate("Exception")
                /\ UNCHANGED <<all_cards, prompts, passes>>
           ELSE /\ all_cards' = all
                /\ IF Pass3Gate(cfg, cube_card_list, all, expected_total)
                   THEN /\ prompts' = Append(prompts,
                               ValidationPrompt(all,
                                   UnfoundCards(cube_card_list, all)))
                        /\ passes' = Append(passes, 3)
                        /\ pc' = "pass3"
                        /\ UNCHANGED <<disk, removed, result, outcome, exc>>
                   ELSE /\ Return(ListOf(all))
                        /\ UNCHANGED <<prompts, passes>>
    /\ UNCHANGED <<cfg, entry, image_path, oriented_image_path, written,
                   other, use_multi_pass, actual_multi_pass,
                   cleanup_files, cube_card_list, first_pass_cards,
                   expected_total, processed_image_path, rotation,
                   rotated_img, batch>>

\* a variant of Pass3Returns that repeats the validation call once when
\* the engine's call failed
Pass3ReturnsRetry(a) ==
    /\ pc = "pass3"
    /\ engine' = Append(engine, a)
    /\ LET sp  == _single_pass_extraction(a)
           all == Update(all_cards, sp.cards)
       IN  /\ all_cards' = all
           /\ IF a.kind = "raise" /\ Len(prompts) < 4
              THEN /\ prompts' = Append(prompts, prompts[Len(prompts)])
                   /\ passes' = Append(passes, 3)
                   /\ UNCHANGED <<pc, disk, removed, result, outcome, exc>>
              ELSE /\ Return(ListOf(all))
                   /\ UNCHANGED <<prompts, passes>>
    /\ UNCHANGED <<cfg, entry, image_path, oriented_image_path, written,
                   other, use_multi_pass, actual_multi_pass,
                   cleanup_files, cube_card_list, first_pass_cards,
                   expected_total, processed_image_path, rotation,
                   rotated_img, batch>>

\* the engine answers pass 3
Pass3Returns(a) ==
    /\ pc = "pass3"
    /\ engine' = Append(engine, a)
    /\ LET sp  == _single_pass_extraction(a)
           all == Update(all_cards, sp.cards)
       IN  IF sp.raised
           THEN /\ Propagate("Exception")
                /\ UNCHANGED all_cards
           ELSE /\ all_cards' = all
                /\ Return(ListOf(all))
    /\ UNCHANGED <<cfg, entry, image_path, oriented_image_path, written,
                   other, use_multi_pass, actual_multi_pass,
                   cleanup_files, cube_card_list, first_pass_cards,
                   expected_total, processed_image_path, prompts, passes,
                   rotation,
                   rotated_img, batch>>

----------------------------------------------------------------------------
(* detect_image_orientation.                                               *)

\* a variant of DetectCleanup that leaves the converted file in place
DetectCleanupSkipped(d, processed, image) == d

\* the temporary converted file is removed, on the normal path and in the
\* exception handler alike
DetectCleanup(d, processed, image) ==
    IF processed # image /\ Exists(d, processed)
    THEN RemoveFile(d, processed) ELSE d

\* the path that cleanup removes
DetectRemoved(d, processed, image) ==
    IF processed # image /\ Exists(d, processed) THEN {processed} ELSE {}

\* detect_image_orientation(p) up to its call of the engine.  A failure of
\* the encoding is caught by the handler, which then fails on the unbound
\* name response.
StartDetection(p) ==
    LET conv == _convert_to_compatible_format(disk, p)
    IN  /\ processed_image_path' = conv.path
        /\ written' = conv.wrote
        /\ IF encode_image_raises(conv.disk, conv.path)
           THEN /\ Raise("UnboundLocalError")
                /\ disk' = DetectCleanup(conv.disk, conv.path, p)
                /\ removed' = DetectRemoved(conv.disk, conv.path, p)
                /\ prompts' = <<>>
           ELSE /\ disk' = conv.disk
                /\ removed' = {}
                /\ prompts' = <<OrientationPrompt>>
                /\ pc' = "orientation"
                /\ outcome' = "none"
                /\ exc' = "none"

\* a caller invokes detect_image_orientation
CallDetectImageOrientation(p) ==
    /\ AtRest
    /\ Fresh("detect_image_orientation", p, TRUE)
    /\ actual_multi_pass' = FALSE
    /\ cleanup_files' = <<>>
    /\ cube_card_list' = None
    /\ passes' = <<>>
    /\ StartDetection(p)
    /\ UNCHANGED <<cfg, oriented_image_path, other,
                   rotated_img, batch>>

\* how the handler of detect_image_orientation ends: print(f"{response}")
\* fails when the engine call raised before response was assigned
HandlerException(a) ==
    IF a.kind = "raise" THEN "UnboundLocalError" ELSE "SystemExit"

\* a variant of DetectOutcome whose handler assumes the image is correctly
\* oriented and returns 0
DetectOutcomeAssumesUpright(a) ==
    [raised |-> FALSE, exc |-> "none",
     rotation |-> IF a.kind = "ok" THEN a.rotation ELSE 0]

\* how detect_image_orientation ends on the engine's answer: the rotation
\* of a parsed result is returned; a call that raised, or a response with
\* no parsed result (result.rotation_needed then raises), ends in the
\* handler, which raises
DetectOutcome(a) ==
    IF a.kind = "ok"
    THEN [raised |-> FALSE, exc |-> "none", rotation |-> a.rotation]
    ELSE [raised |-> TRUE, exc |-> HandlerException(a), rotation |-> 0]

\* the engine answers the orientation call
OrientationReturns(a) ==
    /\ pc = "orientation"
    /\ entry = "detect_image_orientation"
    /\ engine' = Append(engine, a)
    /\ disk' = DetectCleanup(disk, processed_image_path, image_path)
    /\ removed' = removed
                  \cup DetectRemoved(disk, processed_image_path, image_path)
    /\ LET o == DetectOutcome(a)
       IN  IF o.raised
           THEN /\ Raise(o.exc)
                /\ UNCHANGED rotation
           ELSE /\ rotation' = o.rotation
                /\ pc' = "done"
                /\ outcome' = "returned"
                /\ exc' = "none"
    /\ UNCHANGED <<cfg, entry, image_path, oriented_image_path, written,
                   other, use_multi_pass, actual_multi_pass,
                   cleanup_files, cube_card_list, first_pass_cards, all_cards,
                   expected_total, processed_image_path, prompts, passes,
                   result,
                   rotated_img, batch>>

----------------------------------------------------------------------------
(* rotate_and_save_image and extract_card_names_with_orientation.          *)

\* the pixel dimensions (width, height) of an image: one within the bounds
\* max_image_width and max_image_height (2048 each), one beyond them
ImageSize(c) == IF c.big THEN <<4000, 3000>> ELSE <<1600, 1200>>

\* Image.open(image_path): the image as it lies in the file, not turned
Image_open(c) == [size |-> ImageSize(c), turn |-> 0, angle |-> 0]

\* the canvas of img.rotate(angle, expand=True): the bounding box of the
\* turned rectangle.  Quarter turns swap width and height, half turns keep
\* them; for 45, 135, 225 and 315 degrees both sides are
\* ceil((w + h) * sin 45), taken here with sin 45 = 0.7071.
RotatedSize(size, angle) ==
    IF angle % 180 = 0 THEN size
    ELSE IF angle % 180 = 90 THEN <<size[2], size[1]>>
    ELSE LET side == (7071 * (size[1] + size[2]) + 9999) \div 10000
         IN  <<side, side>>

\* img.rotate(angle, expand=True): PIL turns the image counter-clockwise
\* by angle; turn counts the clockwise degrees the pixels have been turned
Image_rotate(img, angle) ==
    [size |-> RotatedSize(img.size, angle),
     turn |-> (img.turn + 360 - (angle % 360)) % 360,
     angle |-> angle]

\* a variant of pil_rotation that hands the clockwise degrees to PIL as
\* they are
pil_rotation_clockwise(rotation_degrees) == rotation_degrees

\* pil_rotation = (360 - rotation_degrees) % 360
pil_rotation(rotation_degrees) == (360 - rotation_degrees) % 360

\* a variant of rotate_and_save_image that returns the path of its source
\* after a successful save
rotate_and_save_image_returns_source(d, image, rotation_degrees, output_path) ==
    IF rotation_degrees = 0
    THEN [path |-> image, disk |-> d, wrote |-> {}, img |-> NoImage]
    ELSE IF ~CanOpen(d, image)
    THEN [path |-> image, disk |-> d, wrote |-> {}, img |-> NoImage]
    ELSE LET rotated == Image_rotate(Image_open(d[image]),
                                     pil_rotation(rotation_degrees))
         IN  IF ~CanSave(output_path)
             THEN [path |-> image, disk |-> d, wrote |-> {}, img |-> rotated]
             ELSE [path |-> image,
                   disk |-> WriteFile(d, output_path, d[image]),
                   wrote |-> {output_path}, img |-> rotated]

\* rotate_and_save_image(image_path, rotation_degrees, output_path): the
\* path it returns, the disk it leaves and the image it rotated.  Any
\* failure of the opening or of the saving is caught and the original path
\* is returned.
rotate_and_save_image(d, image, rotation_degrees, output_path) ==
    IF rotation_degrees = 0
    THEN [path |-> image, disk |-> d, wrote |-> {}, img |-> NoImage]
    ELSE IF ~CanOpen(d, image)
    THEN [path |-> image, disk |-> d, wrote |-> {}, img |-> NoImage]
    ELSE LET rotated == Image_rotate(Image_open(d[image]),
                                     pil_rotation(rotation_degrees))
         IN  IF ~CanSave(output_path)
             THEN [path |-> image, disk |-> d, wrote |-> {}, img |-> rotated]
             ELSE [path |-> output_path,
                   disk |-> WriteFile(d, output_path, d[image]),
                   wrote |-> {output_path}, img |-> rotated]

\* f"{original_path.stem}_oriented{original_path.suffix}"
OrientedPath(p) == WithMarker(p, "_oriented", p.ext)

\* a variant of CallExtractCardNamesWithOrientation without the test of
\* the stem: every path goes to detect_image_orientation
CallExtractCardNamesWithOrientationUnguarded(p, f, ump) ==
    /\ AtRest
    /\ Fresh("extract_card_names_with_orientation", p, ump)
    /\ oriented_image_path' = NoPath
    /\ StartDetection(p)
    /\ actual_multi_pass' = FALSE
    /\ cleanup_files' = <<>>
    /\ cube_card_list' = None
    /\ passes' = <<>>
    /\ UNCHANGED <<cfg, other,
                   rotated_img, batch>>

\* a caller invokes extract_card_names_with_orientation: a path whose stem
\* carries "_oriented" goes straight to extract_card_names, any other path
\* to detect_image_orientation
CallExtractCardNamesWithOrientation(p, f, ump) ==
    /\ AtRest
    /\ Fresh("extract_card_names_with_orientation", p, ump)
    /\ IF HasMarker(p, "_oriented")
       THEN /\ oriented_image_path' = p
            /\ processed_image_path' = NoPath
            /\ StartExtraction(disk, p, f, ump, <<>>, {})
            /\ UNCHANGED removed
       ELSE /\ oriented_image_path' = NoPath
            /\ StartDetection(p)
            /\ actual_multi_pass' = FALSE
            /\ cleanup_files' = <<>>
            /\ cube_card_list' = None
            /\ passes' = <<>>
    /\ UNCHANGED <<cfg, other,
                   rotated_img, batch>>

\* a variant of OrientationReturnsToExtraction that takes a failed
\* detection for "no rotation needed" and goes on to the extraction
OrientationReturnsToExtractionFallsBack(a, f) ==
    /\ pc = "orientation"
    /\ entry = "extract_card_names_with_orientation"
    /\ engine' = Append(engine, a)
    /\ removed' = removed
                  \cup DetectRemoved(disk, processed_image_path, image_path)
    /\ LET d1  == DetectCleanup(disk, processed_image_path, image_path)
           o   == DetectOutcomeAssumesUpright(a)
           rot == IF o.rotation # 0
                  THEN rotate_and_save_image(d1, image_path, o.rotation,
                                             OrientedPath(image_path))
                  ELSE [path |-> image_path, disk |-> d1, wrote |-> {},
                        img |-> NoImage]
       IN  /\ rotation' = o.rotation
           /\ oriented_image_path' = rot.path
           /\ rotated_img' = rot.img
           /\ StartExtraction(rot.disk, rot.path, f, use_multi_pass,
                              prompts, written \cup rot.wrote)
    /\ UNCHANGED <<cfg, entry, image_path, use_multi_pass, first_pass_cards,
                   all_cards, expected_total, processed_image_path, result,
                   other, batch>>

\* the engine answers the orientation call of
\* extract_card_names_with_orientation: an exception of
\* detect_image_orientation leaves the entry point; otherwise the image is
\* rotated when the rotation is not 0, and extract_card_names starts on
\* the oriented path
OrientationReturnsToExtraction(a, f) ==
    /\ pc = "orientation"
    /\ entry = "extract_card_names_with_orientation"
    /\ engine' = Append(engine, a)
    /\ removed' = removed
                  \cup DetectRemoved(disk, processed_image_path, image_path)
    /\ LET d1  == DetectCleanup(disk, processed_image_path, image_path)
           o   == DetectOutcome(a)
           rot == IF o.rotation # 0
                  THEN rotate_and_save_image(d1, image_path, o.rotation,
                                             OrientedPath(image_path))
                  ELSE [path |-> image_path, disk |-> d1, wrote |-> {},
                        img |-> NoImage]
       IN  IF o.raised
           THEN /\ Raise(o.exc)
                /\ disk' = d1
                /\ UNCHANGED <<rotation, oriented_image_path, written,
                               rotated_img, cleanup_files, cube_card_list,
                               actual_multi_pass, prompts, passes>>
           ELSE /\ rotation' = o.rotation
                /\ oriented_image_path' = rot.path
                /\ rotated_img' = rot.img
                /\ StartExtraction(rot.disk, rot.path, f, use_multi_pass,
                                   prompts, written \cup rot.wrote)
    /\ UNCHANGED <<cfg, entry, image_path, use_multi_pass, first_pass_cards,
                   all_cards, expected_total, processed_image_path, result,
                   other, batch>>

----------------------------------------------------------------------------
(* The caller.                                                             *)

\* the caller has taken the result or the exception of the invocation; the
\* locals of the invocation are gone, the disk and the configuration stay
Consume ==
    /\ pc = "done"
    /\ pc' = "idle"
    /\ entry' = "none"
    /\ image_path' = NoPath
    /\ use_multi_pass' = TRUE
    /\ actual_multi_pass' = FALSE
    /\ cleanup_files' = <<>>
    /\ cube_card_list' = None
    /\ first_pass_cards' = <<>>
    /\ all_cards' = {}
    /\ expected_total' = 0
    /\ processed_image_path' = NoPath
    /\ prompts' = <<>>
    /\ engine' = <<>>
    /\ passes' = <<>>
    /\ outcome' = "none"
    /\ exc' = "none"
    /\ result' = <<>>
    /\ rotation' = 0
    /\ oriented_image_path' = NoPath
    /\ written' = {}
    /\ removed' = {}
    /\ other' = NoOther
    /\ rotated_img' = NoImage
    /\ UNCHANGED <<cfg, disk, batch>>

----------------------------------------------------------------------------
(* The pipeline.                                                           *)

Next ==
    \/ \E p \in CallPaths(disk), f \in FetchOutcomes, ump \in BOOLEAN :
           CallExtractCardNames(p, f, ump)
    \/ \E a \in ExtractionAnswers : Pass1Returns(a)
    \/ \E a \in ExtractionAnswers : Pass2Returns(a)
    \/ \E a \in ExtractionAnswers : Pass3Returns(a)
    \/ \E p \in CallPaths(disk) : CallDetectImageOrientation(p)
    \/ \E a \in OrientationAnswers : OrientationReturns(a)
    \/ Consume

Spec == Init /\ [][Next]_vars

\* every call of the engine returns or raises: an answer that is awaited
\* is eventually delivered
EngineAnswers ==
    \/ \E a \in ExtractionAnswers : Pass1Returns(a)
    \/ \E a \in ExtractionAnswers : Pass2Returns(a)
    \/ \E a \in ExtractionAnswers : Pass3Returns(a)
    \/ \E a \in OrientationAnswers : OrientationReturns(a)

FairSpec == Spec /\ WF_vars(EngineAnswers)

----------------------------------------------------------------------------
(* The pipeline with its composed entry point.  The claims about files and *)
(* paths do not depend on how many names the engine reports, so here the   *)
(* engine reports at most one name per answer.                             *)

\* the images of the file claims: those of Images, an image in a format
\* PIL reads but cannot write
PipelineImages ==
    Images \cup { <<Path("deck", ".psd"), Content(TRUE, FALSE, FALSE)>> }

\* the paths callers pass in: the images they put on the disk, the
\* oriented images earlier invocations returned to them, and a path that
\* does not exist
PipelineCallPaths(d) ==
    {p \in DOMAIN d : Len(p.stem) = 1 \/ p.stem = <<p.stem[1], "_oriented">>}
    \cup {MissingPath}

\* the most names the engine reports in one answer here
MaxReported == 1

PipelineAnswers == {a \in ExtractionAnswers : Len(a.names) <= MaxReported}

PipelineInit ==
    /\ cfg \in Configs
    /\ \E img \in PipelineImages : disk = (img[1] :> img[2])
    /\ pc = "idle"
    /\ entry = "none"
    /\ image_path = NoPath
    /\ use_multi_pass = TRUE
    /\ actual_multi_pass = FALSE
    /\ cleanup_files = <<>>
    /\ cube_card_list = None
    /\ first_pass_cards = <<>>
    /\ all_cards = {}
    /\ expected_total = 0
    /\ processed_image_path = NoPath
    /\ prompts = <<>>
    /\ engine = <<>>
    /\ passes = <<>>
    /\ outcome = "none"
    /\ exc = "none"
    /\ result = <<>>
    /\ rotation = 0
    /\ oriented_image_path = NoPath
    /\ written = {}
    /\ removed = {}
    /\ other = NoOther
    /\ rotated_img = NoImage
    /\ batch = NoBatch

PipelineNext ==
    \/ \E p \in PipelineCallPaths(disk), f \in FetchOutcomes, ump \in BOOLEAN :
           CallExtractCardNamesWithOrientation(p, f, ump)
    \/ \E a \in OrientationAnswers, f \in FetchOutcomes :
           OrientationReturnsToExtraction(a, f)
    \/ \E p \in PipelineCallPaths(disk), f \in FetchOutcomes, ump \in BOOLEAN :
           CallExtractCardNames(p, f, ump)
    \/ \E a \in PipelineAnswers : Pass1Returns(a)
    \/ \E a \in PipelineAnswers : Pass2Returns(a)
    \/ \E a \in PipelineAnswers : Pass3Returns(a)
    \/ \E p \in PipelineCallPaths(disk) : CallDetectImageOrientation(p)
    \/ \E a \in OrientationAnswers : OrientationReturns(a)
    \/ Consume

PipelineSpec == PipelineInit /\ [][PipelineNext]_vars

----------------------------------------------------------------------------
(* Two invocations at the same time.  While the invocation the model       *)
(* follows waits for the engine, a second invocation of extract_card_names *)
(* (another thread or process, on another source path in the same          *)
(* directory) prepares its image and later runs its cleanup.               *)

\* the second invocation runs extract_card_names(q) up to its first call
\* of the engine
OtherPrepares(q) ==
    /\ pc \in {"orientation", "pass1", "pass2", "pass3"}
    /\ other = NoOther
    /\ q # image_path
    /\ LET conv == _convert_to_compatible_format(disk, q)
           rs   == resize_image_if_needed(conv.disk, conv.path)
       IN  /\ disk' = rs.disk
           /\ other' = [path |-> q,
                        written |-> conv.wrote \cup rs.wrote,
                        removed |-> {},
                        cleanup_files |->
                            IF rs.raised THEN <<>>
                            ELSE CleanupFiles(q, conv.path, rs.path)]
    /\ UNCHANGED <<cfg, pc, entry, image_path, use_multi_pass,
                   actual_multi_pass, cleanup_files, cube_card_list,
                   first_pass_cards, all_cards, expected_total,
                   processed_image_path, prompts, engine, passes, outcome,
                   exc, result, rotation, oriented_image_path, written,
                   removed, rotated_img, batch>>

\* the second invocation ends: its finally block removes its cleanup_files
OtherCleansUp ==
    /\ other.path # NoPath
    /\ other.cleanup_files # <<>>
    /\ disk' = RemoveAll(disk, other.cleanup_files)
    /\ other' = [other EXCEPT
                     !.removed = Removed(disk, other.cleanup_files),
                     !.cleanup_files = <<>>]
    /\ UNCHANGED <<cfg, pc, entry, image_path, use_multi_pass,
                   actual_multi_pass, cleanup_files, cube_card_list,
                   first_pass_cards, all_cards, expected_total,
                   processed_image_path, prompts, engine, passes, outcome,
                   exc, result, rotation, oriented_image_path, written,
                   removed, rotated_img, batch>>

\* two images of different source paths in one directory
ConcurrentDisks ==
    { (Path("deck", ".heic") :> Content(TRUE, FALSE, FALSE))
        @@ (Path("deck", ".psd") :> Content(TRUE, FALSE, FALSE)) }

ConcurrentInit ==
    /\ cfg \in Configs
    /\ disk \in ConcurrentDisks
    /\ pc = "idle"
    /\ entry = "none"
    /\ image_path = NoPath
    /\ use_multi_pass = TRUE
    /\ actual_multi_pass = FALSE
    /\ cleanup_files = <<>>
    /\ cube_card_list = None
    /\ first_pass_cards = <<>>
    /\ all_cards = {}
    /\ expected_total = 0
    /\ processed_image_path = NoPath
    /\ prompts = <<>>
    /\ engine = <<>>
    /\ passes = <<>>
    /\ outcome = "none"
    /\ exc = "none"
    /\ result = <<>>
    /\ rotation = 0
    /\ oriented_image_path = NoPath
    /\ written = {}
    /\ removed = {}
    /\ other = NoOther
    /\ rotated_img = NoImage
    /\ batch = NoBatch

ConcurrentNext ==
    \/ PipelineNext
    \/ \E q \in CallPaths(disk) : OtherPrepares(q)
    \/ OtherCleansUp

ConcurrentSpec == ConcurrentInit /\ [][ConcurrentNext]_vars

----------------------------------------------------------------------------
(* Batch processing: CubeWizard.process_image_directory of main.py calls   *)
(* process_single_image, and with it the composed entry point, on every    *)
(* image file of a directory.                                              *)

\* supported_formats
SupportedFormats == {".jpg", ".jpeg", ".png", ".bmp", ".tiff", ".webp"}

\* the files of the directory whose lower-cased name ends in a supported
\* format
ListedImages(d) == {p \in DOMAIN d : LowerExt(p.ext) \in SupportedFormats}

\* the orders in which os.listdir may give the files of S
Orders(S) == {s \in [1..Cardinality(S) -> S] : Range(s) = S}

\* "except Exception" catches every exception but those that derive from
\* BaseException alone; SystemExit is one of these
CaughtByExceptException(e) == e # "SystemExit"

\* a caller invokes process_image_directory: the directory is listed once;
\* with no image file the empty list is returned at once
CallProcessImageDirectory(listing) ==
    /\ AtRest
    /\ batch.status = "none"
    /\ batch' = [status |-> IF listing = <<>> THEN "returned" ELSE "running",
                 image_paths |-> listing,
                 enriched_paths |-> <<>>]
    /\ UNCHANGED <<cfg, disk, pc, entry, image_path, use_multi_pass,
                   actual_multi_pass, cleanup_files, cube_card_list,
                   first_pass_cards, all_cards, expected_total,
                   processed_image_path, prompts, engine, passes, outcome,
                   exc, result, rotation, oriented_image_path, written,
                   removed, other, rotated_img>>

\* the loop calls process_single_image on the next image: a path that
\* names no file raises FileNotFoundError, any other path goes to
\* extract_card_names_with_orientation with use_multi_pass left at True
CallProcessSingleImage(f) ==
    /\ batch.status = "running"
    /\ batch.image_paths # <<>>
    /\ LET p == Head(batch.image_paths)
       IN  IF ~Exists(disk, p)
           THEN /\ AtRest
                /\ Fresh("process_single_image", p, TRUE)
                /\ Raise("FileNotFoundError")
                /\ UNCHANGED <<cfg, disk, actual_multi_pass, cleanup_files,
                               cube_card_list, processed_image_path,
                               prompts, passes, oriented_image_path,
                               written, removed, other, rotated_img, batch>>
           ELSE CallExtractCardNamesWithOrientation(p, f, TRUE)

\* process_single_image ends and the loop takes its outcome.  With names
\* extracted, the later steps (Scryfall, database) end normally (enriched)
\* or with an Exception; with no names None is returned.  An Exception is
\* caught by the loop, which goes on; an exception the handler does not
\* catch leaves process_image_directory.
ProcessSingleImageEnds(enriched) ==
    /\ batch.status = "running"
    /\ pc = "done"
    /\ LET p    == Head(batch.image_paths)
           rest == Tail(batch.image_paths)
       IN  batch' =
               IF outcome = "raised"
               THEN IF CaughtByExceptException(exc)
                    THEN [batch EXCEPT !.image_paths = rest]
                    ELSE [batch EXCEPT !.status = "raised"]
               ELSE IF result = <<>> \/ ~enriched
               THEN [batch EXCEPT !.image_paths = rest]
               ELSE [batch EXCEPT !.image_paths = rest,
                                  !.enriched_paths = Append(@, p)]
    /\ pc' = "idle"
    /\ entry' = "none"
    /\ image_path' = NoPath
    /\ use_multi_pass' = TRUE
    /\ actual_multi_pass' = FALSE
    /\ cleanup_files' = <<>>
    /\ cube_card_list' = None
    /\ first_pass_cards' = <<>>
    /\ all_cards' = {}
    /\ expected_total' = 0
    /\ processed_image_path' = NoPath
    /\ prompts' = <<>>
    /\ engine' = <<>>
    /\ passes' = <<>>
    /\ outcome' = "none"
    /\ exc' = "none"
    /\ result' = <<>>
    /\ rotation' = 0
    /\ oriented_image_path' = NoPath
    /\ written' = {}
    /\ removed' = {}
    /\ rotated_img' = NoImage
    /\ UNCHANGED <<cfg, disk, other>>

\* the loop has gone through the list: enriched_paths is returned
ProcessImageDirectoryReturns ==
    /\ batch.status = "running"
    /\ batch.image_paths = <<>>
    /\ AtRest
    /\ batch' = [batch EXCEPT !.status = "returned"]
    /\ UNCHANGED <<cfg, disk, pc, entry, image_path, use_multi_pass,
                   actual_multi_pass, cleanup_files, cube_card_list,
                   first_pass_cards, all_cards, expected_total,
                   processed_image_path, prompts, engine, passes, outcome,
                   exc, result, rotation, oriented_image_path, written,
                   removed, other, rotated_img>>

\* the directories of the batch: two images; a large image beside the
\* resized copy an earlier run left behind
BatchDisks ==
    { (Path("deck", ".jpg") :> Content(TRUE, FALSE, FALSE))
        @@ (Path("pool", ".JPG") :> Content(TRUE, FALSE, TRUE)),
      (Path("deck", ".JPG") :> Content(TRUE, FALSE, TRUE))
        @@ (WithMarker(Path("deck", ".JPG"), "_resized", ".JPG")
               :> Content(TRUE, FALSE, FALSE)) }

BatchInit ==
    /\ cfg \in Configs
    /\ disk \in BatchDisks
    /\ pc = "idle"
    /\ entry = "none"
    /\ image_path = NoPath
    /\ use_multi_pass = TRUE
    /\ actual_multi_pass = FALSE
    /\ cleanup_files = <<>>
    /\ cube_card_list = None
    /\ first_pass_cards = <<>>
    /\ all_cards = {}
    /\ expected_total = 0
    /\ processed_image_path = NoPath
    /\ prompts = <<>>
    /\ engine = <<>>
    /\ passes = <<>>
    /\ outcome = "none"
    /\ exc = "none"
    /\ result = <<>>
    /\ rotation = 0
    /\ oriented_image_path = NoPath
    /\ written = {}
    /\ removed = {}
    /\ other = NoOther
    /\ rotated_img = NoImage
    /\ batch = NoBatch

BatchNext ==
    \/ \E listing \in Orders(ListedImages(disk)) :
           CallProcessImageDirectory(listing)
    \/ \E f \in FetchOutcomes : CallProcessSingleImage(f)
    \/ \E a \in OrientationAnswers, f \in FetchOutcomes :
           OrientationReturnsToExtraction(a, f)
    \/ \E a \in PipelineAnswers : Pass1Returns(a)
    \/ \E a \in PipelineAnswers : Pass2Returns(a)
    \/ \E a \in PipelineAnswers : Pass3Returns(a)
    \/ \E enriched \in BOOLEAN : ProcessSingleImageEnds(enriched)
    \/ ProcessImageDirectoryReturns

BatchSpec == BatchInit /\ [][BatchNext]_vars

----------------------------------------------------------------------------
(* Properties.                                                             *)

InExtract == entry = "extract_card_names"

InDetect == entry = "detect_image_orientation"

\* the invocation has returned to its caller
Returned == pc = "done" /\ outcome = "returned"

\* the name-set the engine returned in its k-th answer (empty when the
\* call failed or carried no structured result)
PassNames(k) ==
    IF engine[k].kind = "ok" THEN Range(engine[k].names) ELSE {}

\* the union of the name-sets of the answers 1..n
NamesUpTo(n) == UNION {PassNames(k) : k \in 1..n}

PassRan(k) == k \in Range(passes)

\* multi-pass extraction is under way or has returned
InMultiPass == InExtract /\ actual_multi_pass /\ Len(engine) >= 1

\* C1: in multi-pass extraction, after each pass that ran, the accumulated
\* set all_cards is exactly the union of the name-sets the passes so far
\* returned, each name as the engine spelled it.
C1_AccumulatedIsUnion ==
    InMultiPass => all_cards = NamesUpTo(Len(engine))

\* C1 witness: three passes ran and returned Bolt, bolt and Opt in turn.
C1_Witness ==
    /\ InMultiPass
    /\ Returned
    /\ Len(engine) = 3
    /\ PassNames(1) = {"Bolt"}
    /\ PassNames(2) = {"bolt"}
    /\ PassNames(3) = {"Opt"}
    /\ all_cards = {"Bolt", "bolt", "Opt"}

\* C2: whatever use_multi_pass, the multi-pass flag of the configuration
\* and the reference list are, the collection extract_card_names returns
\* holds no card name twice.
C2_ResultHasNoDuplicates ==
    (InExtract /\ Returned) => NoDuplicates(result)

\* the decision on pass 3 has been taken in this invocation
Pass3Decided == InExtract /\ (pc = "pass3" \/ Returned)

\* the accumulated set as it was after pass 2
SetAfterPass2 == NamesUpTo(2)

\* the four conditions: a reference list was supplied, pass 2 ran, the
\* validation pass is enabled, and the set after pass 2 is below 90% of the
\* expected deck size
FourConditions ==
    /\ Truthy(cube_card_list)
    /\ PassRan(2)
    /\ get_enable_validation_pass(cfg)
    /\ 10 * Cardinality(SetAfterPass2) < 9 * get_expected_deck_size(cfg)

\* some entry of the reference list is not in the set after pass 2
SomeEntryUnfound ==
    \E i \in 1..Len(cube_card_list.cards) :
        cube_card_list.cards[i] \notin SetAfterPass2

\* C3 as stated: pass 3 runs if and only if the four conditions hold,
\* whatever the reference list and the accumulated set hold.
C3_Pass3IffFourConditions ==
    Pass3Decided => (PassRan(3) <=> FourConditions)

\* C3 amended: pass 3 runs if and only if the four conditions hold and at
\* least one entry of the reference list is not yet in the accumulated set.
C3_Pass3IffConditionsAndUnfound ==
    Pass3Decided => (PassRan(3) <=> (FourConditions /\ SomeEntryUnfound))

\* C3 witness: the conditions hold, an entry is left to look for, and the
\* third call has been made.
C3_Witness ==
    /\ pc = "pass3"
    /\ PassRan(3)
    /\ FourConditions
    /\ SomeEntryUnfound

\* C4: pass 2 runs only if a non-empty reference list was supplied and
\* pass 1 returned at least one name; an invocation that reaches the
\* engine without a reference list returns after exactly one call.
C4_Pass2NeedsListAndNames ==
    InExtract =>
        /\ PassRan(2) => (Truthy(cube_card_list) /\ PassNames(1) # {})
        /\ (Returned /\ ~Truthy(cube_card_list)) =>
               (Len(prompts) = 1 /\ Len(engine) = 1)

\* C4 witness: multi-pass extraction without a reference list returned the
\* names of pass 1 after a single call.
C4_Witness ==
    /\ InMultiPass
    /\ Returned
    /\ cube_card_list = None
    /\ PassNames(1) = {"Bolt", "Opt"}
    /\ Len(prompts) = 1

\* C5: if pass 1 returns no name (an empty list, no structured result, or
\* a failed call), the invocation returns the empty result and makes no
\* second or third call.
C5_EmptyFirstPassShortCircuits ==
    (InExtract /\ Len(engine) >= 1 /\ PassNames(1) = {}) =>
        /\ Returned
        /\ result = <<>>
        /\ ~PassRan(2)
        /\ ~PassRan(3)
        /\ Len(prompts) = 1

\* C5 witness: multi-pass extraction with a reference list whose first pass
\* came back with an empty list.
C5_Witness ==
    /\ InMultiPass
    /\ Truthy(cube_card_list)
    /\ engine[1].kind = "ok"
    /\ engine[1].names = <<>>
    /\ Returned

\* extract_card_names is waiting for an answer of the engine
AwaitingPass == InExtract /\ pc \in {"pass1", "pass2", "pass3"}

\* C6: an invocation of extract_card_names never makes more than three
\* calls of the engine, and once it has made a call it ends (returns or
\* raises), provided every call of the engine returns or raises.
C6_AtMostThreeCallsThenEnds ==
    /\ [](InExtract => (Len(prompts) <= 3 /\ Len(engine) <= Len(prompts)))
    /\ (AwaitingPass ~> pc = "done")

\* C6 witness: an invocation that made three calls, the last two of which
\* failed, has returned.
C6_Witness ==
    /\ InExtract
    /\ Returned
    /\ Len(prompts) = 3
    /\ Len(engine) = 3
    /\ engine[2].kind = "raise"
    /\ engine[3].kind = "none"

\* C7: the passes run in the order 1, 2, 3: a call is made only after
\* every earlier call has been answered, pass 3 never runs without pass 2,
\* the pass-2 instruction embeds exactly the list pass 1 returned, and the
\* pass-3 instruction embeds the set accumulated after pass 2.
C7_PassesInOrder ==
    InExtract =>
        /\ \E n \in 0..3 : passes = SubSeq(<<1, 2, 3>>, 1, n)
        /\ Len(prompts) = Len(passes)
        /\ Len(prompts) >= 1 => Len(engine) >= Len(prompts) - 1
        /\ Len(engine) <= Len(prompts)
        /\ PassRan(2) =>
               /\ prompts[2].kind = "second"
               /\ engine[1].kind = "ok"
               /\ prompts[2].found = engine[1].names
               /\ prompts[2].count = Len(engine[1].names)
        /\ PassRan(3) =>
               /\ PassRan(2)
               /\ prompts[3].kind = "validation"
               /\ Range(prompts[3].found) = NamesUpTo(2)
               /\ NoDuplicates(prompts[3].found)
               /\ prompts[3].count = Cardinality(NamesUpTo(2))

\* C7 witness: pass 1 returned a name twice, pass 2 added another, and the
\* third call has been made.
C7_Witness ==
    /\ InExtract
    /\ pc = "pass3"
    /\ passes = <<1, 2, 3>>
    /\ engine[1].names = <<"bolt", "bolt">>
    /\ prompts[2].found = <<"bolt", "bolt">>
    /\ engine[2].names = <<"Bolt">>
    /\ prompts[3].found = <<"Bolt", "bolt">>

\* the call of pass 1 failed: it raised, or its response carried no
\* structured result
FirstPassFailed ==
    InExtract /\ Len(engine) >= 1 /\ engine[1].kind \in {"raise", "none"}

\* C8: if the call of pass 1 fails, extract_card_names returns the empty
\* list and no exception reaches the caller.
C8_FirstPassFailureReturnsEmpty ==
    FirstPassFailed => (Returned /\ exc = "none" /\ result = <<>>)

\* C8 witness: the call of pass 1 raised in a multi-pass extraction with a
\* reference list.
C8_Witness ==
    /\ FirstPassFailed
    /\ engine[1].kind = "raise"
    /\ actual_multi_pass
    /\ Truthy(cube_card_list)
    /\ Returned

\* some call of pass 2 or 3 failed
LaterPassFailed ==
    /\ InExtract
    /\ \E k \in 2..Len(engine) : engine[k].kind \in {"raise", "none"}

\* the coverage conditions of pass 3 as they stood when pass 2 was answered
Pass3Warranted ==
    /\ get_enable_validation_pass(cfg)
    /\ 10 * Cardinality(NamesUpTo(2)) < 9 * get_expected_deck_size(cfg)
    /\ \E i \in 1..Len(cube_card_list.cards) :
           cube_card_list.cards[i] \notin NamesUpTo(2)

\* C9: a failed call in pass 2 or 3 contributes nothing and aborts nothing:
\* the invocation goes on to return every name the other passes returned,
\* no exception reaches the caller, and after a failed pass 2 the third
\* call is still made when coverage warrants it.
C9_LaterFailureIsAbsorbed ==
    LaterPassFailed =>
        /\ outcome # "raised"
        /\ pc \in {"pass3", "done"}
        /\ Returned => Range(result) = NamesUpTo(Len(engine))
        /\ Pass3Warranted => PassRan(3)

\* C9 witness: pass 2 raised, pass 3 still ran and added a name to the
\* one of pass 1.
C9_Witness ==
    /\ LaterPassFailed
    /\ Returned
    /\ Len(engine) = 3
    /\ engine[2].kind = "raise"
    /\ PassNames(1) = {"Bolt"}
    /\ PassNames(3) = {"Opt"}
    /\ Range(result) = {"Bolt", "Opt"}

\* the engine's call of orientation detection failed
OrientationCallFailed ==
    InDetect /\ Len(engine) >= 1 /\ engine[1].kind \in {"raise", "none"}

\* C10: when the engine's call made by detect_image_orientation fails, the
\* function raises; it returns no rotation, in particular not 0.
C10_OrientationFailureRaises ==
    OrientationCallFailed =>
        (pc = "done" /\ outcome = "raised" /\ exc # "none")

\* C10 witness: the orientation call raised and detect_image_orientation
\* ended with an exception.
C10_Witness ==
    /\ OrientationCallFailed
    /\ engine[1].kind = "raise"
    /\ outcome = "raised"

----------------------------------------------------------------------------
(* Properties of the composed entry point and of the files.                *)

InComposed == entry = "extract_card_names_with_orientation"

\* the paths whose stem carries the marker "_oriented"
IsOrientedPath(p) == HasMarker(p, "_oriented")

\* the paths rotate_and_save_image is asked to save to: the stem ends in
\* the marker "_oriented"
IsOrientedArtifact(p) ==
    Len(p.stem) >= 2 /\ p.stem[Len(p.stem)] = "_oriented"

\* the orientation call made for extract_card_names_with_orientation
\* failed: the engine raised, or answered without a parsed result
ComposedOrientationFailed ==
    /\ InComposed
    /\ Len(engine) >= 1
    /\ prompts[1] = OrientationPrompt
    /\ engine[1].kind \in {"raise", "none"}

\* C11: when the orientation call fails inside
\* extract_card_names_with_orientation, the entry point ends with an
\* exception and attempts no extraction: no rotation is applied, no
\* oriented file is written, no extraction pass calls the engine (the
\* orientation call stays the only call), no result is returned, and no
\* temporary file is left behind.
C11_OrientationFailureStopsPipeline ==
    ComposedOrientationFailed =>
        /\ pc = "done" /\ outcome = "raised"
        /\ rotation = 0
        /\ oriented_image_path = NoPath
        /\ \A f \in written : ~IsOrientedArtifact(f)
        /\ passes = <<>>
        /\ Len(prompts) = 1 /\ Len(engine) = 1
        /\ result = <<>>
        /\ \A f \in written : ~Exists(disk, f)

\* C11 witness: the orientation call for a .heic image raised after the
\* image was converted for it; the entry point ended with the exception.
C11_Witness ==
    /\ ComposedOrientationFailed
    /\ engine[1].kind = "raise"
    /\ image_path = Path("deck", ".heic")
    /\ written # {}
    /\ outcome = "raised"

\* the invocation has ended, by a return or by an exception
Ended == pc = "done"

\* C12: every converted or resized temporary file that an invocation of
\* extract_card_names created is gone when the invocation ends, whether it
\* returns or raises (in the resize, the encoding or the fetch of the
\* reference list as well).
C12_TemporaryFilesRemoved ==
    (InExtract /\ Ended) => \A f \in written : ~Exists(disk, f)

\* C13: an intermediate file that detect_image_orientation created to run
\* the detection call is gone when the function ends, whether the engine's
\* call succeeded, raised or came back without a parsed result.
C13_DetectionFileRemoved ==
    (InDetect /\ Ended) => \A f \in written : ~Exists(disk, f)

\* C13 witness: detect_image_orientation converted a .heic image, the
\* engine answered without a parsed result, and the function has raised.
C13_Witness ==
    /\ InDetect /\ Ended
    /\ written = {WithMarker(image_path, "_converted", ".jpg")}
    /\ Len(engine) = 1 /\ engine[1].kind = "none"
    /\ outcome = "raised"

\* the exceptions with which detect_image_orientation ends
DetectionErrors == {"SystemExit", "UnboundLocalError"}

\* the invocation ran extract_card_names, directly or through the composed
\* entry point
RanExtraction ==
    \/ InExtract
    \/ InComposed /\ oriented_image_path # NoPath

\* C14: extract_card_names_with_orientation ends in one of two ways only:
\* it returns a list of names (possibly empty) with an oriented-image path,
\* or it raises an error of the orientation detection; no error of the
\* extraction stage (conversion, resize, encoding, fetch of the reference
\* list, passes) reaches the caller.
C14_OnlyDetectionErrorsEscape ==
    (InComposed /\ Ended) =>
        \/ outcome = "returned" /\ oriented_image_path # NoPath
        \/ /\ outcome = "raised"
           /\ exc \in DetectionErrors
           /\ ~RanExtraction

\* the exceptions of a failed Image.open
OpenErrors == {"UnidentifiedImageError", "FileNotFoundError"}

\* C15: a failure of the format conversion or of the resize during the
\* preparation of an image is absorbed: the preparation goes on with the
\* path it had and no exception of the resize leaves extract_card_names.
C15_PreparationFailuresAbsorbed ==
    (RanExtraction /\ Ended /\ outcome = "raised") => exc \notin OpenErrors

\* no orientation call was made, no rotation was applied, and a returning
\* composed entry point hands back the input path
DetectionSkipped ==
    /\ \A i \in 1..Len(prompts) : prompts[i] # OrientationPrompt
    /\ rotation = 0
    /\ \A f \in written : ~IsOrientedArtifact(f)
    /\ (InComposed /\ Returned) => oriented_image_path = image_path

\* C16: for an image whose file name carries the marker "_oriented" the
\* orientation is taken as 0 without the engine: no orientation call is
\* made, no rotation is applied and the composed entry point returns the
\* input path as the oriented path -- whether the image comes in through
\* detect_image_orientation or through
\* extract_card_names_with_orientation.
C16_MarkedImageSkipsDetection ==
    ((InDetect \/ InComposed) /\ IsOrientedPath(image_path))
        => DetectionSkipped

\* C16 as amended: the test of the marker is made by
\* extract_card_names_with_orientation alone; detect_image_orientation
\* called on such a path sends its orientation call like on any other.
C16_ComposedEntrySkipsDetection ==
    /\ (InComposed /\ IsOrientedPath(image_path)) => DetectionSkipped
    /\ (InDetect /\ IsOrientedPath(image_path) /\ Exists(disk, image_path))
           => (Len(prompts) = 1 /\ prompts[1] = OrientationPrompt)

\* C16 witness: extract_card_names_with_orientation was called on
\* deck_oriented.jpg and returned names together with that very path.
C16_Witness ==
    /\ InComposed /\ Returned
    /\ image_path = OrientedPath(Path("deck", ".jpg"))
    /\ result = <<"Bolt">>
    /\ oriented_image_path = image_path
    /\ Len(engine) = 1

\* the image can be opened and the oriented path can be saved to: the
\* rotation of rotate_and_save_image succeeds
RotationPossible ==
    CanOpen(disk, image_path) /\ CanSave(OrientedPath(image_path))

\* the returned path is a new file with the marker, written by this
\* invocation
ReturnedNewOrientedFile ==
    /\ oriented_image_path # image_path
    /\ IsOrientedArtifact(oriented_image_path)
    /\ oriented_image_path \in written
    /\ Exists(disk, oriented_image_path)

\* the returned path is the input path and no oriented file was created
ReturnedInputPath ==
    /\ oriented_image_path = image_path
    /\ \A f \in written : ~IsOrientedArtifact(f)

\* C17: the oriented path that extract_card_names_with_orientation returns
\* is determined by the detected rotation: a rotation other than 0 gives a
\* path that differs from the input path, carries the marker "_oriented"
\* and names a newly written file; rotation 0 gives the input path, and no
\* file is created.
C17_OrientedPathFollowsRotation ==
    (InComposed /\ Returned) =>
        IF rotation # 0 THEN ReturnedNewOrientedFile ELSE ReturnedInputPath

\* C17 as amended: a rotation other than 0 gives the new oriented file
\* when the image can be rotated and saved; when that fails the input
\* path is returned and no oriented file exists, as with rotation 0.
C17_OrientedPathFollowsRotationAndSave ==
    (InComposed /\ Returned) =>
        IF rotation # 0 /\ RotationPossible
        THEN ReturnedNewOrientedFile ELSE ReturnedInputPath

\* C17 witness: the engine asked for 90 degrees and the entry point
\* returned deck_oriented.jpg, which it had written.
C17_Witness ==
    /\ InComposed /\ Returned
    /\ image_path = Path("deck", ".jpg")
    /\ rotation = 90
    /\ ReturnedNewOrientedFile

\* C18: the oriented image is never deleted by the pipeline: the path that
\* extract_card_names_with_orientation hands back as oriented_image_path
\* is not among the files any cleanup removes or is about to remove, and
\* the file it names exists when the call returns.
C18_OrientedImageKept ==
    (InComposed /\ oriented_image_path # NoPath) =>
        /\ oriented_image_path \notin removed
        /\ oriented_image_path \notin Range(cleanup_files)
        /\ (Returned => Exists(disk, oriented_image_path))

\* C18 witness: a large image was rotated, the resized copy of the
\* oriented image was removed by the cleanup, and the call returned the
\* oriented image, still on the disk.
C18_Witness ==
    /\ InComposed /\ Returned
    /\ oriented_image_path = OrientedPath(Path("deck", ".JPG"))
    /\ removed = {WithMarker(oriented_image_path, "_resized", ".JPG")}
    /\ Exists(disk, oriented_image_path)

\* C19: the raw input image is never mutated: no step of the orientation
\* detection, the rotation, the conversion, the resize or the cleanup
\* saves to the input path or removes it; every path the pipeline saves to
\* differs from the input path.
C19_InputNeverMutated ==
    /\ image_path \notin written
    /\ image_path \notin removed
    /\ image_path \notin Range(cleanup_files)

\* C19 witness: a large .webp image went through detection, rotation,
\* conversion, resize and cleanup; files were saved and removed, and the
\* input is as it was.
C19_Witness ==
    /\ InComposed /\ Returned
    /\ image_path = Path("deck", ".webp")
    /\ rotation = 180
    /\ Cardinality(written) >= 4
    /\ Cardinality(removed) >= 3
    /\ disk[image_path] = Content(TRUE, TRUE, TRUE)

\* the paths an invocation saved to or removed
Touched(w, r) == w \cup r

\* C20: two invocations at the same time on different source paths do not
\* interfere: no file that one of them saved or removed is saved or removed
\* by the other, and neither saves over or removes the source file of the
\* other.
C20_DifferentSourcesAreIsolated ==
    (other.path # NoPath /\ other.path # image_path) =>
        /\ Touched(written, removed)
               \cap Touched(other.written, other.removed) = {}
        /\ other.path \notin Touched(written, removed)
        /\ image_path \notin Touched(other.written, other.removed)

----------------------------------------------------------------------------
(* Properties of the configuration, the prompts and the error paths.       *)

\* C21: passes 2 and 3 are gated by the configuration: neither runs unless
\* the multi-pass flag and the validation-pass flag are both true, and the
\* argument use_multi_pass cannot make either run when a flag is false.
C21_BothFlagsGateLaterPasses ==
    (InExtract /\ (PassRan(2) \/ PassRan(3))) =>
        /\ cfg.use_multi_pass_detection
        /\ cfg.enable_validation_pass

\* C21 as amended: pass 2 needs the multi-pass flag (and the argument
\* use_multi_pass), whatever the validation-pass flag says; pass 3 needs
\* both flags.  The argument cannot make a pass run that a flag forbids.
C21_EachPassHasItsFlag ==
    InExtract =>
        /\ PassRan(2) => (cfg.use_multi_pass_detection /\ use_multi_pass)
        /\ PassRan(3) => /\ cfg.use_multi_pass_detection /\ use_multi_pass
                         /\ cfg.enable_validation_pass
                         /\ PassRan(2)

\* C21 witness: with the validation pass disabled and multi-pass enabled,
\* pass 2 ran and the invocation returned without a pass 3.
C21_Witness ==
    /\ InExtract /\ Returned
    /\ ~cfg.enable_validation_pass
    /\ cfg.use_multi_pass_detection
    /\ passes = <<1, 2>>
    /\ Len(engine) = 2

\* the entries of the reference list
ReferenceEntries == Range(cube_card_list.cards)

\* C22: when pass 3 runs, its instruction lists exactly the entries of the
\* reference list that are not in the accumulated set after pass 2: no
\* found entry is listed, no un-found entry is left out, none is repeated,
\* so the instruction lists as many names as the list has entries less
\* those found.
C22_Pass3ListsTheUnfound ==
    (InExtract /\ PassRan(3)) =>
        /\ prompts[3].kind = "validation"
        /\ Range(prompts[3].listed) = ReferenceEntries \ SetAfterPass2
        /\ NoDuplicates(prompts[3].listed)
        /\ Len(prompts[3].listed) =
               Len(cube_card_list.cards)
               - Cardinality(ReferenceEntries \cap SetAfterPass2)

\* C22 witness: of the reference list Bolt, Opt, bolt the first two passes
\* found Bolt; pass 3 was sent with Opt and bolt listed.
C22_Witness ==
    /\ InExtract /\ PassRan(3)
    /\ cube_card_list.cards = <<"Bolt", "Opt", "bolt">>
    /\ SetAfterPass2 = {"Bolt"}
    /\ prompts[3].listed = <<"Opt", "bolt">>

\* the image is in an accepted encoding and within the size bound
AcceptedAndSmall(d, p) ==
    /\ LowerExt(p.ext) \in {".jpg", ".jpeg", ".png"}
    /\ CanOpen(d, p)
    /\ ~d[p].big

\* C24: for an image already in an accepted encoding and within the size
\* bound, the conversion and the resize each return the path they were
\* given and create no file, so extract_card_names lists no file for
\* cleanup, saves nothing and removes nothing.
C24_AcceptedImageUntouched ==
    /\ \A p \in DOMAIN disk :
           AcceptedAndSmall(disk, p) =>
               /\ _convert_to_compatible_format(disk, p)
                      = [path |-> p, disk |-> disk, wrote |-> {}]
               /\ resize_image_if_needed(disk, p)
                      = [raised |-> FALSE, path |-> p, disk |-> disk,
                         wrote |-> {}]
    /\ (InExtract /\ pc # "idle" /\ AcceptedAndSmall(disk, image_path)) =>
           /\ cleanup_files = <<>>
           /\ written = {}
           /\ removed = {}

\* C24 witness: extract_card_names returned names for deck.jpg, a small
\* JPEG, and the disk holds that one file as before.
C24_Witness ==
    /\ InExtract /\ Returned
    /\ image_path = Path("deck", ".jpg")
    /\ AcceptedAndSmall(disk, image_path)
    /\ result # <<>>
    /\ DOMAIN disk = {image_path}

\* the four rotations the orientation detection is meant to report
CardinalRotations == {0, 90, 180, 270}

\* C26: the rotation detect_image_orientation returns, and with it every
\* rotation extract_card_names_with_orientation applies, is one of 0, 90,
\* 180 and 270.
C26_RotationIsCardinal ==
    (InDetect \/ InComposed) => rotation \in CardinalRotations

\* C27: whenever something fails inside detect_image_orientation (the
\* encoding, the engine's call, or a response without parsed result), the
\* function ends by raising SystemExit, never another exception.
C27_DetectionFailsWithSystemExit ==
    (InDetect /\ Ended /\ outcome = "raised") => exc = "SystemExit"

\* C30: when a reference-list identifier is given but the list cannot be
\* fetched (request error, unparsable or unexpected response) or is empty,
\* extract_card_names behaves as with no reference list: no exception of
\* the fetch reaches the caller, pass 1 runs with the instruction that
\* embeds no list, and passes 2 and 3 do not run.
C30_FailedFetchIsLikeNoList ==
    (InExtract /\ pc # "idle" /\ ~Truthy(cube_card_list)) =>
        /\ ~(outcome = "raised" /\ exc = "TypeError")
        /\ PassRan(1) => prompts[1] = BasePrompt(cube_card_list)
        /\ ~PassRan(2) /\ ~PassRan(3)

\* C28: every file extract_card_names or detect_image_orientation removes
\* is one the same invocation saved, and a file that was on the disk when
\* the invocation saved to its path for the first time (one already named
\* deck_converted.jpg beside deck.heic, say) is never saved over.
C28_OnlyOwnFilesTouched ==
    [][ /\ \A f \in removed' \ removed : f \in written'
        /\ \A f \in written' \ written : ~Exists(disk, f) ]_vars

\* C25: for every clockwise rotation r of 0, 90, 180 and 270, the angle
\* handed to PIL is (360 - r) % 360, one of the four again, with
\* (angle + r) % 360 = 0; the image rotate_and_save_image rotated is turned
\* r degrees clockwise, its canvas has width and height swapped for r = 90
\* and r = 270 and unchanged for r = 180.
C25_RotationIsClockwise ==
    /\ \A r \in CardinalRotations :
           /\ pil_rotation(r) = (360 - r) % 360
           /\ pil_rotation(r) \in CardinalRotations
           /\ (pil_rotation(r) + r) % 360 = 0
    /\ (InComposed /\ rotated_img # NoImage
                   /\ rotation \in CardinalRotations) =>
           /\ rotated_img.angle \in CardinalRotations
           /\ (rotated_img.angle + rotation) % 360 = 0
           /\ rotated_img.turn = rotation
           /\ Exists(disk, image_path)
           /\ LET size == ImageSize(disk[image_path])
              IN  /\ rotation \in {90, 270} =>
                         rotated_img.size = <<size[2], size[1]>>
                  /\ rotation = 180 => rotated_img.size = size

\* an image was rotated a quarter turn and saved beside its source
C25_Witness ==
    /\ InComposed
    /\ rotation = 90
    /\ rotated_img # NoImage
    /\ ReturnedNewOrientedFile

\* C23: when the input path names no file, the invocation fails with a
\* missing-file error before any processing: no file is written and no
\* call reaches the Recognition Engine, whichever entry point got the path.
C23_MissingFileFailsAtOnce ==
    (Ended /\ ~Exists(disk, image_path)) =>
        /\ outcome = "raised"
        /\ exc = "FileNotFoundError"
        /\ written = {}
        /\ prompts = <<>>
        /\ engine = <<>>

\* process_image_directory has ended
BatchEnded == batch.status \in {"returned", "raised"}

\* C29: in process_image_directory a failure on one image, a failure of
\* the orientation detection included, does not stop the batch: every
\* later image of the list is processed and the list of successes is
\* returned.
C29_BatchSurvivesFailures ==
    BatchEnded => (batch.status = "returned" /\ batch.image_paths = <<>>)

====
